---- MODULE Spec2Model ----
(***************************************************************************)
(* OSCKey (src/osckey.py): an OSC-to-keystroke bridge.  OSC messages       *)
(* arriving on a UDP listener are resolved to a (modifiers, key) command   *)
(* by handle_keypress and executed by press_key_combo; a web control       *)
(* surface edits the shortcut table and the bind parameters and rebuilds   *)
(* the listener.                                                           *)
(*                                                                         *)
(* Python strings are modelled as sequences of one-character strings so    *)
(* that lower(), strip(), split(), startswith() and slicing are computed   *)
(* character by character.  pynput Key objects and None are one-element    *)
(* sequences whose element is longer than one character, so they never     *)
(* coincide with a Python string.                                          *)
(***************************************************************************)
EXTENDS Integers, Sequences, FiniteSets, TLC

VARIABLES
    config,               \* the global `config` dict (osc_ip, osc_port, custom_shortcuts)
    file,                 \* CONFIG_FILE on disk: missing, unreadable, or a JSON document
    defaults,             \* DEFAULT_CONFIG["custom_shortcuts"], the one dict object behind the module constant
    aliased,              \* config["custom_shortcuts"] is that same dict object
    loads,                \* calls of load_config() made by this process so far
    resp,                 \* what the last load or shortcut request reported
    snapshot,             \* the last run of save_config(): the config it was given and how the write went
    handlers,             \* per-datagram request threads of the ThreadingOSCUDPServer, in arrival order
    events,               \* key events injected into the OS so far, in order
    osc_server_instance,  \* global: index into servers, 0 = None
    osc_thread,           \* global: index into threads, 0 = None
    servers,              \* every ThreadingOSCUDPServer object that was constructed
    threads,              \* every listener thread (target = start_osc_server)
    ctl,                  \* the control surface request in progress (update_osc_config)
    rival                 \* a second update_osc_config request, on another thread of the Flask server

\* the persistence state that the message path and the listener never touch
store == <<file, defaults, aliased, loads, resp, snapshot>>

vars == <<config, store, handlers, events, osc_server_instance, osc_thread, servers, threads, ctl, rival>>

----------------------------------------------------------------------------
(* Python values *)

None == <<"None">>
Key(name) == <<"Key", name>>
\* a JSON number, as request.json hands it over
Num(digits) == <<"Num", digits>>
IsStr(v) == \A i \in 1..Len(v) : v[i] \notin {"None", "Key", "Num"}

\* str(arg) of an OSC argument together with isinstance(arg, str)
StrArg(s) == [isstr |-> TRUE, s |-> s]
NumArg(s) == [isstr |-> FALSE, s |-> s]

UpperChars == <<"A","B","C","D","E","F","G","H","I","J","K","L","M",
                "N","O","P","Q","R","S","T","U","V","W","X","Y","Z">>
LowerChars == <<"a","b","c","d","e","f","g","h","i","j","k","l","m",
                "n","o","p","q","r","s","t","u","v","w","x","y","z">>

LowerChar(c) ==
    IF \E i \in 1..Len(UpperChars) : UpperChars[i] = c
    THEN LowerChars[CHOOSE i \in 1..Len(UpperChars) : UpperChars[i] = c]
    ELSE c

\* str.lower()
Lower(s) == [i \in 1..Len(s) |-> LowerChar(s[i])]

\* the characters str.strip() and str.split() treat as whitespace
Whitespace == {" ", "\t", "\n", "\r"}

RECURSIVE LStrip(_)
LStrip(s) == IF s # <<>> /\ Head(s) \in Whitespace THEN LStrip(Tail(s)) ELSE s

RECURSIVE RStrip(_)
RStrip(s) ==
    IF s # <<>> /\ s[Len(s)] \in Whitespace THEN RStrip(SubSeq(s, 1, Len(s) - 1)) ELSE s

\* str.strip()
Strip(s) == RStrip(LStrip(s))

\* str.split() with no separator: maximal runs of non-whitespace
RECURSIVE SplitFrom(_, _, _)
SplitFrom(s, cur, acc) ==
    IF s = <<>> THEN (IF cur = <<>> THEN acc ELSE Append(acc, cur))
    ELSE IF Head(s) \in Whitespace
         THEN SplitFrom(Tail(s), <<>>, IF cur = <<>> THEN acc ELSE Append(acc, cur))
         ELSE SplitFrom(Tail(s), Append(cur, Head(s)), acc)

Split(s) == SplitFrom(s, <<>>, <<>>)

\* str.startswith(p)
StartsWith(s, p) == Len(s) >= Len(p) /\ SubSeq(s, 1, Len(p)) = p

\* s[n:]
DropChars(s, n) == SubSeq(s, n + 1, Len(s))

\* ' ' in s
ContainsSpace(s) == \E i \in 1..Len(s) : s[i] = " "

RECURSIVE Reverse(_)
Reverse(s) == IF s = <<>> THEN <<>> ELSE Append(Reverse(Tail(s)), Head(s))

\* Python truthiness of a key value (None and "" are falsy)
Truthy(v) == v # None /\ v # <<>>

----------------------------------------------------------------------------
(* Key vocabulary *)

MODIFIERS ==
    [a \in {<<"c", "o", "m", "m", "a", "n", "d">>,
             <<"c", "m", "d">>,
             <<"o", "p", "t", "i", "o", "n">>,
             <<"o", "p", "t">>,
             <<"a", "l", "t">>,
             <<"c", "o", "n", "t", "r", "o", "l">>,
             <<"c", "t", "r", "l">>,
             <<"s", "h", "i", "f", "t">>} |->
        CASE a = <<"c", "o", "m", "m", "a", "n", "d">> -> Key("cmd")
          [] a = <<"c", "m", "d">> -> Key("cmd")
          [] a = <<"o", "p", "t", "i", "o", "n">> -> Key("alt")
          [] a = <<"o", "p", "t">> -> Key("alt")
          [] a = <<"a", "l", "t">> -> Key("alt")
          [] a = <<"c", "o", "n", "t", "r", "o", "l">> -> Key("ctrl")
          [] a = <<"c", "t", "r", "l">> -> Key("ctrl")
          [] a = <<"s", "h", "i", "f", "t">> -> Key("shift")]
SPECIAL_KEYS ==
    [a \in {<<"s", "p", "a", "c", "e">>,
             <<"e", "n", "t", "e", "r">>,
             <<"r", "e", "t", "u", "r", "n">>,
             <<"t", "a", "b">>,
             <<"b", "a", "c", "k", "s", "p", "a", "c", "e">>,
             <<"d", "e", "l", "e", "t", "e">>,
             <<"e", "s", "c">>,
             <<"e", "s", "c", "a", "p", "e">>,
             <<"u", "p">>,
             <<"d", "o", "w", "n">>,
             <<"l", "e", "f", "t">>,
             <<"r", "i", "g", "h", "t">>,
             <<"h", "o", "m", "e">>,
             <<"e", "n", "d">>,
             <<"p", "a", "g", "e", "u", "p">>,
             <<"p", "a", "g", "e", "d", "o", "w", "n">>,
             <<"f", "1">>,
             <<"f", "2">>,
             <<"f", "3">>,
             <<"f", "4">>,
             <<"f", "5">>,
             <<"f", "6">>,
             <<"f", "7">>,
             <<"f", "8">>,
             <<"f", "9">>,
             <<"f", "1", "0">>,
             <<"f", "1", "1">>,
             <<"f", "1", "2">>} |->
        CASE a = <<"s", "p", "a", "c", "e">> -> Key("space")
          [] a = <<"e", "n", "t", "e", "r">> -> Key("enter")
          [] a = <<"r", "e", "t", "u", "r", "n">> -> Key("enter")
          [] a = <<"t", "a", "b">> -> Key("tab")
          [] a = <<"b", "a", "c", "k", "s", "p", "a", "c", "e">> -> Key("backspace")
          [] a = <<"d", "e", "l", "e", "t", "e">> -> Key("delete")
          [] a = <<"e", "s", "c">> -> Key("esc")
          [] a = <<"e", "s", "c", "a", "p", "e">> -> Key("esc")
          [] a = <<"u", "p">> -> Key("up")
          [] a = <<"d", "o", "w", "n">> -> Key("down")
          [] a = <<"l", "e", "f", "t">> -> Key("left")
          [] a = <<"r", "i", "g", "h", "t">> -> Key("right")
          [] a = <<"h", "o", "m", "e">> -> Key("home")
          [] a = <<"e", "n", "d">> -> Key("end")
          [] a = <<"p", "a", "g", "e", "u", "p">> -> Key("page_up")
          [] a = <<"p", "a", "g", "e", "d", "o", "w", "n">> -> Key("page_down")
          [] a = <<"f", "1">> -> Key("f1")
          [] a = <<"f", "2">> -> Key("f2")
          [] a = <<"f", "3">> -> Key("f3")
          [] a = <<"f", "4">> -> Key("f4")
          [] a = <<"f", "5">> -> Key("f5")
          [] a = <<"f", "6">> -> Key("f6")
          [] a = <<"f", "7">> -> Key("f7")
          [] a = <<"f", "8">> -> Key("f8")
          [] a = <<"f", "9">> -> Key("f9")
          [] a = <<"f", "1", "0">> -> Key("f10")
          [] a = <<"f", "1", "1">> -> Key("f11")
          [] a = <<"f", "1", "2">> -> Key("f12")]
APPLESCRIPT_KEY_CODES ==
    [a \in {<<"l", "e", "f", "t">>, <<"r", "i", "g", "h", "t">>, <<"d", "o", "w", "n">>, <<"u", "p">>} |->
        CASE a = <<"l", "e", "f", "t">> -> 123
          [] a = <<"r", "i", "g", "h", "t">> -> 124
          [] a = <<"d", "o", "w", "n">> -> 125
          [] a = <<"u", "p">> -> 126]

\* string literals used by the configuration and by the bounded inputs
s_command == <<"c", "o", "m", "m", "a", "n", "d">>
s_shift == <<"s", "h", "i", "f", "t">>
s_z == <<"z">>
s_extra == <<"e", "x", "t", "r", "a">>
s_CMD_padded == <<" ", "C", "M", "D", " ">>
s_Left == <<"L", "e", "f", "t">>
s_left == <<"l", "e", "f", "t">>
s_empty == <<>>
s_blank == <<" ">>
s_zz == <<"z", "z">>
s_command_shift_z == <<"c", "o", "m", "m", "a", "n", "d", " ", "s", "h", "i", "f", "t", " ", "z">>
s_command_tab_z == <<"c", "o", "m", "m", "a", "n", "d", "\t", "z">>
s_cmd_left == <<"c", "m", "d", " ", "l", "e", "f", "t">>
s_one == <<"1">>
s_s == <<"s">>
s_c == <<"c">>
s_v == <<"v">>
s_hyper == <<"h", "y", "p", "e", "r">>
s_up == <<"u", "p">>
a_key == <<"/", "k", "e", "y">>
a_key_slash == <<"/", "k", "e", "y", "/">>
a_key_down == <<"/", "k", "e", "y", "/", "d", "o", "w", "n">>
a_key_foo == <<"/", "k", "e", "y", "/", "f", "o", "o">>
a_key_cmd == <<"/", "k", "e", "y", "/", "c", "m", "d">>
a_key_blank == <<"/", "k", "e", "y", "/", " ">>
a_key_save == <<"/", "k", "e", "y", "/", "s", "a", "v", "e">>
a_key_copy == <<"/", "k", "e", "y", "/", "c", "o", "p", "y">>
a_key_paste == <<"/", "k", "e", "y", "/", "p", "a", "s", "t", "e">>
a_key_undo == <<"/", "k", "e", "y", "/", "u", "n", "d", "o">>
a_key_redo == <<"/", "k", "e", "y", "/", "r", "e", "d", "o">>
a_osc == <<"/", "o", "s", "c">>
a_key_arrow == <<"/", "k", "e", "y", "/", "a", "r", "r", "o", "w">>
KEY_PREFIX == <<"/", "k", "e", "y", "/">>
a_key_star == <<"/", "k", "e", "y", "/", "*">>
a_k_star == <<"/", "k", "*">>
a_ke_q == <<"/", "k", "e", "?">>
s_right == <<"r", "i", "g", "h", "t">>
s_down == <<"d", "o", "w", "n">>

----------------------------------------------------------------------------
(* Configuration *)

Shortcut(modifiers, key, description) ==
    [modifiers |-> modifiers, key |-> key, description |-> description]

DEFAULT_SHORTCUTS ==
    (a_key_save  :> Shortcut(<<s_command>>, s_s, "Save")) @@
    (a_key_copy  :> Shortcut(<<s_command>>, s_c, "Copy")) @@
    (a_key_paste :> Shortcut(<<s_command>>, s_v, "Paste")) @@
    (a_key_undo  :> Shortcut(<<s_command>>, s_z, "Undo")) @@
    (a_key_redo  :> Shortcut(<<s_command, s_shift>>, s_z, "Redo"))

DEFAULT_PORT == 5005

DEFAULT_CONFIG ==
    [osc_port |-> DEFAULT_PORT, osc_ip |-> "0.0.0.0", custom_shortcuts |-> DEFAULT_SHORTCUTS]

----------------------------------------------------------------------------
(* handle_keypress: address and arguments to a (modifiers, key) command *)

\* address[4:].strip(): the prefix length is off by one
KeyFromAddressOffByOne(address) == Strip(DropChars(address, 4))

\* address[5:].strip()
KeyFromAddress(address) == Strip(DropChars(address, 5))

\* the split step left out
SplitSingleArgNever(args) == args

\* if len(args) == 1 and isinstance(args[0], str) and ' ' in args[0]: args = args[0].split()
SplitSingleArg(args) ==
    IF Len(args) = 1 /\ args[1].isstr /\ ContainsSpace(args[1].s)
    THEN LET tokens == Split(args[1].s)
         IN  [i \in 1..Len(tokens) |-> StrArg(tokens[i])]
    ELSE args

\* the loop without its break: later modifiers still accumulate and the last
\* non-modifier token wins
RECURSIVE ClassifyNoBreak(_, _, _)
ClassifyNoBreak(args, modifiers, key) ==
    IF args = <<>> THEN [modifiers |-> modifiers, key |-> key]
    ELSE LET arg_str == Strip(Head(args).s)
         IN  IF Lower(arg_str) \in DOMAIN MODIFIERS
             THEN ClassifyNoBreak(Tail(args), Append(modifiers, arg_str), key)
             ELSE ClassifyNoBreak(Tail(args), modifiers, arg_str)

ClassifyArgsNoBreak(args, modifiers) == ClassifyNoBreak(args, modifiers, None)

\* the for loop that separates modifiers from the main key
RECURSIVE ClassifyArgs(_, _)
ClassifyArgs(args, modifiers) ==
    IF args = <<>> THEN [modifiers |-> modifiers, key |-> None]
    ELSE LET arg_str == Strip(Head(args).s)
         IN  IF Lower(arg_str) \in DOMAIN MODIFIERS
             THEN ClassifyArgs(Tail(args), Append(modifiers, arg_str))
             ELSE [modifiers |-> modifiers, key |-> arg_str]

Resolution(outcome, modifiers, key) ==
    [outcome |-> outcome, modifiers |-> modifiers, key |-> key]

\* the heuristic tried before the table whenever arguments are present
HandleKeypressArgsFirst(address, args, shortcuts) ==
    IF args = <<>> /\ address \in DOMAIN shortcuts
    THEN Resolution("shortcut", shortcuts[address].modifiers, shortcuts[address].key)
    ELSE IF args = <<>>
    THEN Resolution("no_args", <<>>, None)
    ELSE LET c == ClassifyArgs(SplitSingleArg(args), <<>>)
         IN  IF Truthy(c.key) \/ c.modifiers # <<>>
             THEN Resolution("resolved", c.modifiers, c.key)
             ELSE Resolution("no_valid", c.modifiers, c.key)

\* the remainder of the address taken as the key even when arguments came along
HandleKeypressAddressFirst(address, args, shortcuts) ==
    IF address \in DOMAIN shortcuts
    THEN Resolution("shortcut", shortcuts[address].modifiers, shortcuts[address].key)
    ELSE IF StartsWith(address, KEY_PREFIX) /\ KeyFromAddress(address) # <<>>
    THEN LET c == ClassifyArgs(SplitSingleArg(<<StrArg(KeyFromAddress(address))>>), <<>>)
         IN  Resolution("resolved", c.modifiers, c.key)
    ELSE IF args = <<>>
    THEN Resolution("no_args", <<>>, None)
    ELSE LET c == ClassifyArgs(SplitSingleArg(args), <<>>)
         IN  IF Truthy(c.key) \/ c.modifiers # <<>>
             THEN Resolution("resolved", c.modifiers, c.key)
             ELSE Resolution("no_valid", c.modifiers, c.key)

\* outcome "shortcut" and "resolved" call press_key_combo(modifiers, key);
\* "no_args" and "no_valid" log a warning and return
HandleKeypress(address, args, shortcuts) ==
    IF address \in DOMAIN shortcuts
    THEN Resolution("shortcut", shortcuts[address].modifiers, shortcuts[address].key)
    ELSE IF args = <<>> /\ StartsWith(address, KEY_PREFIX) /\ KeyFromAddress(address) = <<>>
    THEN Resolution("no_args", <<>>, None)
    ELSE IF args = <<>> /\ ~StartsWith(address, KEY_PREFIX)
    THEN Resolution("no_args", <<>>, None)
    ELSE LET given == IF args = <<>> THEN <<StrArg(KeyFromAddress(address))>> ELSE args
             c     == ClassifyArgs(SplitSingleArg(given), <<>>)
         IN  IF Truthy(c.key) \/ c.modifiers # <<>>
             THEN Resolution("resolved", c.modifiers, c.key)
             ELSE Resolution("no_valid", c.modifiers, c.key)

\* every message handed to handle_keypress
RoutesToKeypressAlways(address) == TRUE

\* python-osc reads the address of a message as an OSC address pattern and
\* matches it against each mapped address: re.escape, then '?' becomes \w?
\* and '*' becomes [\w|\+]*, anchored by match() and a closing $
Digits == {"0", "1", "2", "3", "4", "5", "6", "7", "8", "9"}
WordChars ==
    {LowerChars[i] : i \in 1..Len(LowerChars)} \cup
    {UpperChars[i] : i \in 1..Len(UpperChars)} \cup Digits \cup {"_"}
StarChars == WordChars \cup {"|", "+"}

RECURSIVE PatternMatches(_, _)
PatternMatches(pattern, addr) ==
    IF pattern = <<>> THEN addr = <<>>
    ELSE IF Head(pattern) = "*"
    THEN \/ PatternMatches(Tail(pattern), addr)
         \/ addr # <<>> /\ Head(addr) \in StarChars /\ PatternMatches(pattern, Tail(addr))
    ELSE IF Head(pattern) = "?"
    THEN \/ PatternMatches(Tail(pattern), addr)
         \/ addr # <<>> /\ Head(addr) \in WordChars /\ PatternMatches(Tail(pattern), Tail(addr))
    ELSE addr # <<>> /\ Head(addr) = Head(pattern) /\ PatternMatches(Tail(pattern), Tail(addr))

\* disp.map("/key", ...), disp.map("/key/*", ...), set_default_handler(handle_unmatched_osc);
\* a mapped address holding '*' also takes every message it is a prefix of
\* (re.match of "/key/[^/]*?/*" against the address of the message)
RoutesToKeypress(address) ==
    \/ PatternMatches(address, a_key)
    \/ PatternMatches(address, a_key_star)
    \/ StartsWith(address, KEY_PREFIX)

----------------------------------------------------------------------------
(* press_key_combo *)

\* the loop that gives up at the first unknown modifier
RECURSIVE ModifierKeysKnownPrefix(_)
ModifierKeysKnownPrefix(modifiers) ==
    IF modifiers = <<>> THEN <<>>
    ELSE LET mod_lower == Lower(Head(modifiers))
         IN  IF mod_lower \in DOMAIN MODIFIERS
             THEN <<MODIFIERS[mod_lower]>> \o ModifierKeysKnownPrefix(Tail(modifiers))
             ELSE <<>>

\* modifier names to Key objects; unknown names are logged and left out
RECURSIVE ModifierKeys(_)
ModifierKeys(modifiers) ==
    IF modifiers = <<>> THEN <<>>
    ELSE LET mod_lower == Lower(Head(modifiers))
         IN  IF mod_lower \in DOMAIN MODIFIERS
             THEN <<MODIFIERS[mod_lower]>> \o ModifierKeys(Tail(modifiers))
             ELSE ModifierKeys(Tail(modifiers))

MainKey(key) ==
    IF ~Truthy(key) THEN None
    ELSE IF Lower(key) \in DOMAIN SPECIAL_KEYS THEN SPECIAL_KEYS[Lower(key)]
    ELSE key

\* the key compared without lower()
UsesAppleScriptCaseSensitive(modifiers, key) ==
    key \in DOMAIN APPLESCRIPT_KEY_CODES /\ modifiers # <<>>

\* if key_lower in APPLESCRIPT_KEY_CODES and modifiers
UsesAppleScript(modifiers, key) ==
    LET key_lower == IF Truthy(key) THEN Lower(key) ELSE None
    IN  key_lower \in DOMAIN APPLESCRIPT_KEY_CODES /\ modifiers # <<>>

\* pynput's Controller resolves a str key with KeyCode.from_char and raises
\* ValueError unless the string has exactly one character
KeyboardRaises(k) == IsStr(k) /\ Len(k) # 1

\* whether one keyboard.press / keyboard.release call raises
Raises(k) == IF KeyboardRaises(k) THEN {TRUE} ELSE BOOLEAN

\* the main key left out after the modifier presses
AfterModifiersSkipMain(main_key) == "release_modifiers"

\* where the pynput path goes once the modifiers are down
AfterModifiers(main_key) == IF main_key # None THEN "press_main" ELSE "release_modifiers"

\* where the pynput path starts
EnterDirect(modifier_keys, main_key) ==
    IF modifier_keys # <<>> THEN "press_modifiers"
    ELSE IF main_key # None THEN "press_main"
    ELSE "done"

----------------------------------------------------------------------------
(* Request threads: ThreadingOSCUDPServer handles every datagram on a      *)
(* thread of its own, which runs the dispatcher's handler to completion.   *)

NewHandler(m) ==
    [address |-> m.address, args |-> m.args, pc |-> "recv", outcome |-> "pending",
     modifiers |-> <<>>, key |-> None, modifier_keys |-> <<>>, main_key |-> None,
     backend |-> "none", i |-> 0, result |-> "none", returned |-> "pending"]

Msg(address, args) == [address |-> address, args |-> args]

KeyEvent(h, op, role, k) == [h |-> h, op |-> op, role |-> role, key |-> k]

\* a datagram arrives on the bound socket and serve_forever starts its thread
Receive(msgs, cap) ==
    /\ osc_server_instance # 0
    /\ servers[osc_server_instance].sock = "open"
    /\ Len(handlers) < cap
    /\ \E m \in msgs : handlers' = Append(handlers, NewHandler(m))
    /\ UNCHANGED <<config, store, events, osc_server_instance, osc_thread, servers, threads, ctl, rival>>

\* what press_key_combo hands back: it has no return statement with a value
ReturnValue(result) == "None"

\* press_key_combo has run to its end or to its except clause
Finish(h, result) ==
    [handlers EXCEPT ![h].pc = "done", ![h].result = result,
                     ![h].returned = ReturnValue(result)]

Failed(h) == Finish(h, "error")

\* an exception leaves handle_keypress: socketserver's handle_error prints the
\* traceback to stderr and the request thread ends
Escaped(h, error) ==
    [handlers EXCEPT ![h].pc = "done", ![h].outcome = "raised", ![h].result = error]

\* k.upper() in build_key_path, key.lower() in press_key_combo
UpperRaises(k) == Truthy(k) /\ ~IsStr(k)

\* handle_keypress from its log line on, and press_key_combo up to its first keyboard call
Called(h, r) ==
    LET mk == ModifierKeys(r.modifiers)
        mn == MainKey(r.key)
        called == r.outcome \in {"shortcut", "resolved"}
        script == UsesAppleScript(r.modifiers, r.key)
        pc2 == IF ~called THEN "done"
               ELSE IF script THEN "applescript"
               ELSE EnterDirect(mk, mn)
    IN  [handlers EXCEPT
            ![h].outcome = r.outcome,
            ![h].modifiers = r.modifiers,
            ![h].key = r.key,
            ![h].modifier_keys = IF called THEN mk ELSE <<>>,
            ![h].main_key = IF called THEN mn ELSE None,
            ![h].backend = IF ~called THEN "none"
                           ELSE IF script THEN "applescript" ELSE "pynput",
            ![h].i = 1,
            ![h].pc = pc2,
            ![h].result = IF called /\ pc2 = "done" THEN "success" ELSE "none",
            ![h].returned = IF called /\ pc2 = "done" THEN ReturnValue("success") ELSE "pending"]

\* the dispatcher calls handle_keypress or handle_unmatched_osc; handle_keypress
\* tests `address in config["custom_shortcuts"]` and, on a miss, runs on up to
\* the first keyboard call of press_key_combo
Dispatch(h) ==
    /\ handlers[h].pc = "recv"
    /\ LET t == handlers[h] IN
       IF ~RoutesToKeypress(t.address)
       THEN handlers' = [handlers EXCEPT ![h].pc = "done", ![h].outcome = "unmatched"]
       ELSE LET r == HandleKeypress(t.address, t.args, config.custom_shortcuts)
            IN  handlers' = IF r.outcome = "shortcut"
                            THEN [handlers EXCEPT ![h].pc = "lookup"]
                            ELSE Called(h, r)
    /\ UNCHANGED <<config, store, events, osc_server_instance, osc_thread, servers, threads, ctl, rival>>

\* a table read that consumes the entry it found (dict.pop instead of d[k])
ReadShortcutConsuming(h) ==
    /\ handlers[h].pc = "lookup"
    /\ LET t == handlers[h] IN
       IF t.address \notin DOMAIN config.custom_shortcuts
       THEN /\ handlers' = Escaped(h, "KeyError")
            /\ UNCHANGED config
       ELSE LET r == HandleKeypress(t.address, t.args, config.custom_shortcuts)
            IN  /\ handlers' = IF UpperRaises(r.key)
                               THEN Escaped(h, "AttributeError")
                               ELSE Called(h, r)
                /\ config' = [config EXCEPT !.custom_shortcuts =
                                 [a \in DOMAIN @ \ {t.address} |-> @[a]]]
    /\ UNCHANGED <<store, events, osc_server_instance, osc_thread, servers, threads, ctl, rival>>

\* shortcut = config["custom_shortcuts"][address]: a second read of the table,
\* then build_key_path and press_key_combo(mods, k)
ReadShortcut(h) ==
    /\ handlers[h].pc = "lookup"
    /\ LET t == handlers[h] IN
       IF t.address \notin DOMAIN config.custom_shortcuts
       THEN handlers' = Escaped(h, "KeyError")
       ELSE LET r == HandleKeypress(t.address, t.args, config.custom_shortcuts)
            IN  handlers' = IF UpperRaises(r.key)
                            THEN Escaped(h, "AttributeError")
                            ELSE Called(h, r)
    /\ UNCHANGED <<config, store, events, osc_server_instance, osc_thread, servers, threads, ctl, rival>>

\* for mod_key in modifier_keys: keyboard.press(mod_key)
PressModifier(h) ==
    /\ handlers[h].pc = "press_modifiers"
    /\ LET t == handlers[h]
           k == t.modifier_keys[t.i]
       IN  \E raises \in Raises(k) :
             IF raises
             THEN /\ handlers' = Failed(h)
                  /\ UNCHANGED events
             ELSE /\ events' = Append(events, KeyEvent(h, "press", "modifier", k))
                  /\ handlers' = IF t.i < Len(t.modifier_keys)
                                 THEN [handlers EXCEPT ![h].i = t.i + 1]
                                 ELSE [handlers EXCEPT ![h].pc = AfterModifiers(t.main_key)]
    /\ UNCHANGED <<config, store, osc_server_instance, osc_thread, servers, threads, ctl, rival>>

\* keyboard.press(main_key)
PressMain(h) ==
    /\ handlers[h].pc = "press_main"
    /\ LET t == handlers[h] IN
       \E raises \in Raises(t.main_key) :
         IF raises
         THEN /\ handlers' = Failed(h)
              /\ UNCHANGED events
         ELSE /\ events' = Append(events, KeyEvent(h, "press", "main", t.main_key))
              /\ handlers' = [handlers EXCEPT ![h].pc = "release_main"]
    /\ UNCHANGED <<config, store, osc_server_instance, osc_thread, servers, threads, ctl, rival>>

\* keyboard.release(main_key)
ReleaseMain(h) ==
    /\ handlers[h].pc = "release_main"
    /\ LET t == handlers[h] IN
       \E raises \in Raises(t.main_key) :
         IF raises
         THEN /\ handlers' = Failed(h)
              /\ UNCHANGED events
         ELSE /\ events' = Append(events, KeyEvent(h, "release", "main", t.main_key))
              /\ handlers' = IF t.modifier_keys # <<>>
                             THEN [handlers EXCEPT ![h].pc = "release_modifiers"]
                             ELSE Finish(h, "success")
    /\ UNCHANGED <<config, store, osc_server_instance, osc_thread, servers, threads, ctl, rival>>

\* for mod_key in reversed(modifier_keys): keyboard.release(mod_key)
ReleaseModifier(h) ==
    /\ handlers[h].pc = "release_modifiers"
    /\ LET t == handlers[h]
           k == t.modifier_keys[t.i]
       IN  \E raises \in Raises(k) :
             IF raises
             THEN /\ handlers' = Failed(h)
                  /\ UNCHANGED events
             ELSE /\ events' = Append(events, KeyEvent(h, "release", "modifier", k))
                  /\ handlers' = IF t.i > 1
                                 THEN [handlers EXCEPT ![h].i = t.i - 1]
                                 ELSE Finish(h, "success")
    /\ UNCHANGED <<config, store, osc_server_instance, osc_thread, servers, threads, ctl, rival>>

\* press_key_with_applescript: one osascript invocation, which may fail or time out
RunAppleScript(h) ==
    /\ handlers[h].pc = "applescript"
    /\ \E ok \in BOOLEAN :
         IF ok
         THEN /\ events' = Append(events, KeyEvent(h, "script", "combo", handlers[h].key))
              /\ handlers' = Finish(h, "success")
         ELSE /\ handlers' = Finish(h, "applescript_failed")
              /\ UNCHANGED events
    /\ UNCHANGED <<config, store, osc_server_instance, osc_thread, servers, threads, ctl, rival>>

HandlerStep ==
    \/ \E h \in DOMAIN handlers : Dispatch(h)
    \/ \E h \in DOMAIN handlers : ReadShortcut(h)
    \/ \E h \in DOMAIN handlers : PressModifier(h)
    \/ \E h \in DOMAIN handlers : PressMain(h)
    \/ \E h \in DOMAIN handlers : ReleaseMain(h)
    \/ \E h \in DOMAIN handlers : ReleaseModifier(h)
    \/ \E h \in DOMAIN handlers : RunAppleScript(h)

----------------------------------------------------------------------------
(* The OSC listener: start_osc_server runs on a thread of its own *)

\* addresses the host can bind, and ports held by other processes
ValidAddresses == {"0.0.0.0", "127.0.0.1"}
PortsInUse == {5007}

NewServer(ip, port) ==
    [ip |-> ip, port |-> port, sock |-> "open",
     shutdown_request |-> FALSE, is_shut_down |-> FALSE]

\* the constructor of ThreadingOSCUDPServer binds the socket; SO_REUSEADDR is
\* set only afterwards, so it has no part in whether the bind succeeds;
\* bind() raises OverflowError for a port outside 0-65535
CanBind(ip, port) ==
    /\ ip \in ValidAddresses
    /\ port \in 0..65535
    /\ port \notin PortsInUse
    /\ \A s \in DOMAIN servers : servers[s].sock = "open" => servers[s].port # port

\* server_close() forgotten: the old socket stays bound
ServerCloseSkipped(srv) == srv

\* server_close()
ServerClose(srv) == [srv EXCEPT !.sock = "closed"]

\* serve_forever's finally block
LoopExited(srv) == [srv EXCEPT !.shutdown_request = FALSE, !.is_shut_down = TRUE]

\* ThreadingOSCUDPServer((osc_ip, osc_port), disp): the constructor binds the
\* socket, or raises into the except branch; the new object is not yet assigned
ListenerBind(t) ==
    /\ threads[t].pc = "start"
    /\ IF CanBind(config.osc_ip, config.osc_port)
       THEN /\ servers' = Append(servers, NewServer(config.osc_ip, config.osc_port))
            /\ threads' = [threads EXCEPT ![t].pc = "constructed", ![t].server = Len(servers) + 1]
       ELSE /\ threads' = [threads EXCEPT ![t].pc = "failed"]
            /\ UNCHANGED servers
    /\ UNCHANGED <<config, store, handlers, events, osc_server_instance, osc_thread, ctl, rival>>

\* osc_server_instance = <the new server>: the store into the global
ListenerPublish(t) ==
    /\ threads[t].pc = "constructed"
    /\ osc_server_instance' = threads[t].server
    /\ threads' = [threads EXCEPT ![t].pc = "bound"]
    /\ UNCHANGED <<config, store, handlers, events, osc_thread, servers, ctl, rival>>

\* osc_server_instance.socket.setsockopt(...) and osc_server_instance.serve_forever():
\* the global is read again; None, or a server whose socket is closed, raises
\* into the except branch; serve_forever clears the is_shut_down event
ListenerServe(t) ==
    /\ threads[t].pc = "bound"
    /\ LET s == osc_server_instance IN
       IF s = 0 \/ servers[s].sock = "closed"
       THEN /\ threads' = [threads EXCEPT ![t].pc = "failed"]
            /\ UNCHANGED servers
       ELSE IF servers[s].shutdown_request
       THEN /\ threads' = [threads EXCEPT ![t].pc = "exited", ![t].server = s]
            /\ servers' = [servers EXCEPT ![s] = LoopExited(servers[s])]
       ELSE /\ threads' = [threads EXCEPT ![t].pc = "serving", ![t].server = s]
            /\ servers' = [servers EXCEPT ![s].is_shut_down = FALSE]
    /\ UNCHANGED <<config, store, handlers, events, osc_server_instance, osc_thread, ctl, rival>>

\* the serve_forever loop sees the shutdown request and returns
ListenerExit(t) ==
    /\ threads[t].pc = "serving"
    /\ LET s == threads[t].server IN
       /\ servers[s].shutdown_request
       /\ threads' = [threads EXCEPT ![t].pc = "exited"]
       /\ servers' = [servers EXCEPT ![s] = LoopExited(servers[s])]
    /\ UNCHANGED <<config, store, handlers, events, osc_server_instance, osc_thread, ctl, rival>>

ListenerStep ==
    \/ \E t \in DOMAIN threads : ListenerBind(t)
    \/ \E t \in DOMAIN threads : ListenerPublish(t)
    \/ \E t \in DOMAIN threads : ListenerServe(t)
    \/ \E t \in DOMAIN threads : ListenerExit(t)

----------------------------------------------------------------------------
(* Persistence and the control surface *)

\* no listener thread is still on its way to the bind or to the store into
\* osc_server_instance: the 0.5 s sleeps of restart_osc_server (and the time
\* since startup) have let it get there
ListenerSettled == \A t \in DOMAIN threads : threads[t].pc \notin {"start", "constructed"}

\* the Flask thread is started right after the listener thread (main)
FlaskRunning == osc_thread # 0

\* CONFIG_FILE as open() finds it: absent, present but not a JSON object, or a
\* JSON object.  Every value of config comes from a literal of the module or
\* from a JSON request body, so json.dump and json.load reproduce it member by
\* member; doc holds the members of the document.
NoDoc == [osc_port |-> 0, osc_ip |-> "", custom_shortcuts |-> <<>>]
MissingFile == [state |-> "missing", doc |-> NoDoc]
CorruptFile == [state |-> "corrupt", doc |-> NoDoc]
Document(cfg) == [state |-> "ok", doc |-> cfg]

\* open(CONFIG_FILE, 'w') and json.dump either complete, or open() raises and
\* the file stays as it was, or the dump raises after open() truncated the file
WriteOutcomes == {"written", "unchanged", "truncated"}

\* a writer that replaces only the shortcut member of the stored document
SavedShortcutsOnly(cfg, how) ==
    IF how = "written"
    THEN Document([file.doc EXCEPT !.custom_shortcuts = cfg.custom_shortcuts])
    ELSE IF how = "truncated" THEN CorruptFile
    ELSE file

\* save_config(): json.dump(config, f) into the reopened file; errors are logged
Saved(cfg, how) ==
    IF how = "written" THEN Document(cfg)
    ELSE IF how = "truncated" THEN CorruptFile
    ELSE file

NoSnapshot == [taken |-> FALSE, cfg |-> NoDoc, how |-> "none"]
SnapshotOf(cfg, how) == [taken |-> TRUE, cfg |-> cfg, how |-> how]

\* a load that lays the loaded table over the built-in entries
ConfigUpdateOverBuiltins(cfg, loaded) ==
    [osc_port |-> loaded.osc_port, osc_ip |-> loaded.osc_ip,
     custom_shortcuts |-> loaded.custom_shortcuts @@ DEFAULT_SHORTCUTS]

\* config.update(loaded_config) that merges the loaded table into the one in memory
ConfigUpdateMerging(cfg, loaded) ==
    [osc_port |-> loaded.osc_port, osc_ip |-> loaded.osc_ip,
     custom_shortcuts |-> loaded.custom_shortcuts @@ cfg.custom_shortcuts]

\* config.update(loaded_config): each top-level member of the document
\* replaces the member of the same name
ConfigUpdate(cfg, loaded) ==
    [k \in DOMAIN cfg \cup DOMAIN loaded |->
        IF k \in DOMAIN loaded THEN loaded[k] ELSE cfg[k]]

\* DEFAULT_CONFIG.copy(): a new top-level dict around the same shortcut dict
DefaultConfigCopy == [DEFAULT_CONFIG EXCEPT !.custom_shortcuts = defaults]

NoResponse == [op |-> "none", arg |-> <<>>, success |-> FALSE, message |-> ""]
Response(op, arg, success, message) ==
    [op |-> op, arg |-> arg, success |-> success, message |-> message]

\* load_config(), called by main() and again by OSCKeyApp.__init__ once the
\* listener and Flask threads are running
LoadConfig ==
    /\ loads < 2
    /\ loads = 1 => FlaskRunning
    /\ ctl.pc = "idle"
    /\ loads' = loads + 1
    /\ IF file.state = "missing"
       THEN /\ \E how \in WriteOutcomes :
                 /\ file' = Saved(config, how)
                 /\ snapshot' = SnapshotOf(config, how)
            /\ resp' = Response("load", <<>>, TRUE, "created")
            /\ UNCHANGED <<config, aliased>>
       ELSE /\ \E readable \in BOOLEAN :
                 IF file.state = "ok" /\ readable
                 THEN /\ config' = ConfigUpdate(config, file.doc)
                      /\ aliased' = (aliased /\ "custom_shortcuts" \notin DOMAIN file.doc)
                      /\ resp' = Response("load", <<>>, TRUE, "loaded")
                 ELSE /\ config' = DefaultConfigCopy
                      /\ aliased' = TRUE
                      /\ resp' = Response("load", <<>>, TRUE, "fallback")
            /\ UNCHANGED <<file, snapshot>>
    /\ UNCHANGED <<defaults, handlers, events, osc_server_instance, osc_thread, servers, threads, ctl, rival>>

\* main(): osc_thread = Thread(target=start_osc_server); start(); flask_thread.start()
StartThreads ==
    /\ loads = 1
    /\ osc_thread = 0
    /\ threads' = Append(threads, [pc |-> "start", server |-> 0])
    /\ osc_thread' = Len(threads) + 1
    /\ UNCHANGED <<config, store, handlers, events, osc_server_instance, servers, ctl, rival>>

\* the process ends and the application is launched again: the module is
\* imported afresh and only CONFIG_FILE carries over
Relaunch ==
    /\ ctl.pc = "idle"
    /\ loads > 0
    /\ config' = DEFAULT_CONFIG
    /\ defaults' = DEFAULT_SHORTCUTS
    /\ aliased' = TRUE
    /\ loads' = 0
    /\ resp' = NoResponse
    /\ handlers' = <<>>
    /\ events' = <<>>
    /\ servers' = <<>>
    /\ threads' = <<>>
    /\ osc_server_instance' = 0
    /\ osc_thread' = 0
    /\ UNCHANGED <<file, snapshot, ctl, rival>>

\* the prefix test that lets every address through
HasKeyPrefixAlways(address) == TRUE

\* address.startswith('/key/')
HasKeyPrefix(address) == StartsWith(address, KEY_PREFIX)

\* an assignment that replaces the whole dict by the one new entry
SetItemFresh(d, k, v) == (k :> v)

\* d[k] = v and del d[k] on a dict
SetItem(d, k, v) == (k :> v) @@ d
DelItem(d, k) == [a \in DOMAIN d \ {k} |-> d[a]]

\* POST /api/shortcuts
AddShortcut(address, shortcut) ==
    /\ FlaskRunning
    /\ ctl.pc = "idle"
    /\ IF ~HasKeyPrefix(address)
       THEN /\ resp' = Response("add", address, FALSE, "Address must start with /key/")
            /\ UNCHANGED <<config, file, defaults, snapshot>>
       ELSE /\ config' = [config EXCEPT !.custom_shortcuts = SetItem(@, address, shortcut)]
            /\ defaults' = IF aliased THEN config'.custom_shortcuts ELSE defaults
            /\ \E how \in WriteOutcomes :
                 /\ file' = Saved(config', how)
                 /\ snapshot' = SnapshotOf(config', how)
            /\ resp' = Response("add", address, TRUE, "")
    /\ UNCHANGED <<aliased, loads, handlers, events, osc_server_instance, osc_thread, servers, threads, ctl, rival>>

\* DELETE /api/shortcuts
DeleteShortcut(address) ==
    /\ FlaskRunning
    /\ ctl.pc = "idle"
    /\ IF address \in DOMAIN config.custom_shortcuts
       THEN /\ config' = [config EXCEPT !.custom_shortcuts = DelItem(@, address)]
            /\ defaults' = IF aliased THEN config'.custom_shortcuts ELSE defaults
            /\ \E how \in WriteOutcomes :
                 /\ file' = Saved(config', how)
                 /\ snapshot' = SnapshotOf(config', how)
            /\ resp' = Response("delete", address, TRUE, "")
       ELSE /\ resp' = Response("delete", address, FALSE, "Shortcut not found")
            /\ UNCHANGED <<config, file, defaults, snapshot>>
    /\ UNCHANGED <<aliased, loads, handlers, events, osc_server_instance, osc_thread, servers, threads, ctl, rival>>

\* POST /api/config/osc up to the call of restart_osc_server
UpdateOscConfig(ip, port, cap) ==
    /\ FlaskRunning
    /\ ctl.pc = "idle"
    /\ ctl.n < cap
    /\ config' = [config EXCEPT !.osc_ip = ip, !.osc_port = port]
    /\ \E how \in WriteOutcomes :
         /\ file' = Saved(config', how)
         /\ snapshot' = SnapshotOf(config', how)
    /\ resp' = Response("osc", <<>>, FALSE, "")
    /\ ctl' = [ctl EXCEPT !.pc = "restart"]
    /\ UNCHANGED <<defaults, aliased, loads, handlers, events, osc_server_instance, osc_thread, servers, threads, rival>>

\* if osc_server_instance: osc_server_instance.shutdown() is called
RestartStop ==
    /\ ctl.pc = "restart"
    /\ IF osc_server_instance # 0
       THEN /\ servers' = [servers EXCEPT ![osc_server_instance].shutdown_request = TRUE]
            /\ ctl' = [ctl EXCEPT !.pc = "shutdown", !.prev = osc_server_instance]
       ELSE /\ ctl' = [ctl EXCEPT !.pc = "clear", !.prev = 0]
            /\ UNCHANGED servers
    /\ UNCHANGED <<config, store, handlers, events, osc_server_instance, osc_thread, threads, rival>>

\* shutdown() returns once the loop has exited; server_close(); join(timeout=3)
RestartClose ==
    /\ ctl.pc = "shutdown"
    /\ servers[ctl.prev].is_shut_down
    /\ servers' = [servers EXCEPT ![ctl.prev] = ServerClose(servers[ctl.prev])]
    /\ ctl' = [ctl EXCEPT !.pc = "clear"]
    /\ UNCHANGED <<config, store, handlers, events, osc_server_instance, osc_thread, threads, rival>>

\* osc_server_instance = None; osc_thread = Thread(target=start_osc_server); start()
RestartStart ==
    /\ ctl.pc = "clear"
    /\ osc_server_instance' = 0
    /\ threads' = Append(threads, [pc |-> "start", server |-> 0])
    /\ osc_thread' = Len(threads) + 1
    /\ ctl' = [ctl EXCEPT !.pc = "started"]
    /\ UNCHANGED <<config, store, handlers, events, servers, rival>>

\* time.sleep(0.5); return True, and update_osc_config answers {'success': True}
RestartReturn ==
    /\ ctl.pc = "started"
    /\ ctl' = [ctl EXCEPT !.pc = "idle", !.n = ctl.n + 1, !.success = TRUE]
    /\ UNCHANGED <<config, store, handlers, events, osc_server_instance, osc_thread, servers, threads, rival>>

\* the same handler and restart_osc_server on a second request thread (the
\* Flask development server handles each request on a thread of its own)
RivalUpdate(ip, port, cap) ==
    /\ FlaskRunning
    /\ rival.pc = "idle"
    /\ rival.n < cap
    /\ config' = [config EXCEPT !.osc_ip = ip, !.osc_port = port]
    /\ \E how \in WriteOutcomes :
         /\ file' = Saved(config', how)
         /\ snapshot' = SnapshotOf(config', how)
    /\ resp' = Response("osc", <<>>, FALSE, "")
    /\ rival' = [rival EXCEPT !.pc = "restart"]
    /\ UNCHANGED <<defaults, aliased, loads, handlers, events, osc_server_instance, osc_thread, servers, threads, ctl>>

RivalStop ==
    /\ rival.pc = "restart"
    /\ IF osc_server_instance # 0
       THEN /\ servers' = [servers EXCEPT ![osc_server_instance].shutdown_request = TRUE]
            /\ rival' = [rival EXCEPT !.pc = "shutdown", !.prev = osc_server_instance]
       ELSE /\ rival' = [rival EXCEPT !.pc = "clear", !.prev = 0]
            /\ UNCHANGED servers
    /\ UNCHANGED <<config, store, handlers, events, osc_server_instance, osc_thread, threads, ctl>>

RivalClose ==
    /\ rival.pc = "shutdown"
    /\ servers[rival.prev].is_shut_down
    /\ servers' = [servers EXCEPT ![rival.prev] = ServerClose(servers[rival.prev])]
    /\ rival' = [rival EXCEPT !.pc = "clear"]
    /\ UNCHANGED <<config, store, handlers, events, osc_server_instance, osc_thread, threads, ctl>>

RivalStart ==
    /\ rival.pc = "clear"
    /\ osc_server_instance' = 0
    /\ threads' = Append(threads, [pc |-> "start", server |-> 0])
    /\ osc_thread' = Len(threads) + 1
    /\ rival' = [rival EXCEPT !.pc = "started"]
    /\ UNCHANGED <<config, store, handlers, events, servers, ctl>>

RivalReturn ==
    /\ rival.pc = "started"
    /\ rival' = [rival EXCEPT !.pc = "idle", !.n = rival.n + 1, !.success = TRUE]
    /\ UNCHANGED <<config, store, handlers, events, osc_server_instance, osc_thread, servers, threads, ctl>>

----------------------------------------------------------------------------
(* Bounded inputs *)

MaxArgs == 4      \* longest argument list over the core tokens
MaxMsgs == 2      \* datagrams received in one run of the dispatch specification
MaxRebuilds == 2  \* bind-config requests in one run of the rebuild specification
MaxBindRequests == 1  \* bind-config requests in one run of the configuration specification
MaxRaceRequests == 1  \* bind-config requests of each of the two request threads in the race specification

SeqsUpTo(S, n) == UNION {[1..k -> S] : k \in 0..n}

CoreTokens == {StrArg(s_command), StrArg(s_shift), StrArg(s_z), StrArg(s_extra)}

EdgeTokens ==
    {StrArg(s_CMD_padded), StrArg(s_Left), StrArg(s_up), StrArg(s_empty), StrArg(s_blank),
     StrArg(s_zz), StrArg(s_command_shift_z), StrArg(s_command_tab_z), StrArg(s_cmd_left),
     NumArg(s_one)}

ResolveArgLists ==
    SeqsUpTo(CoreTokens, MaxArgs)
        \cup {<<t>> : t \in EdgeTokens}
        \cup {<<StrArg(s_command), t>> : t \in EdgeTokens}

ResolveAddresses ==
    {a_key, a_key_slash, a_key_blank, a_key_down, a_key_foo, a_key_cmd,
     a_key_save, a_key_redo, a_key_arrow, a_osc, a_k_star, a_ke_q}

\* the default table, and a table after three addShortcut calls
EditedShortcuts ==
    (a_key_redo :> Shortcut(<<s_hyper, s_command, s_shift>>, s_z, "Redo")) @@
    (a_key_arrow :> Shortcut(<<s_hyper>>, s_left, "")) @@
    (a_key_foo :> Shortcut(<<s_shift>>, None, "Shift chord")) @@
    DEFAULT_SHORTCUTS

ResolveTables == {DEFAULT_SHORTCUTS, EditedShortcuts}

ResolveMsgs == {Msg(a, args) : a \in ResolveAddresses, args \in ResolveArgLists}

DispatchMsgs ==
    {Msg(a_key_save, <<>>),
     Msg(a_key_foo, <<StrArg(s_shift), StrArg(s_z)>>),
     Msg(a_key_foo, <<StrArg(s_command), StrArg(s_zz)>>),
     Msg(a_key, <<StrArg(s_cmd_left)>>)}

\* request bodies of the shortcut endpoints and documents left by earlier runs
AddAddresses == {a_key_foo, a_osc}
AddEntries == {Shortcut(<<s_command>>, s_zz, "Zoom"), Shortcut(<<>>, s_empty, "")}
DeleteAddresses == {a_key_save, a_key_foo, a_key_arrow}
ConfigAddresses == {"127.0.0.1"}
ConfigPorts == {5006}
StoredShortcuts == (a_key_foo :> Shortcut(<<s_shift>>, None, "Shift chord")) @@ DEFAULT_SHORTCUTS
InitialFiles ==
    {MissingFile, CorruptFile, Document(DEFAULT_CONFIG),
     Document([osc_port |-> 5006, osc_ip |-> "127.0.0.1", custom_shortcuts |-> StoredShortcuts])}

\* messages and shortcut requests that meet on the same table entries
TableMsgs == {Msg(a_key_save, <<>>), Msg(a_key_foo, <<>>), Msg(a_key, <<StrArg(s_cmd_left)>>)}
TableAddresses == {a_key_save, a_key_foo}
TableEntries == {Shortcut(<<s_command>>, s_z, "Zap"), Shortcut(<<>>, Num("5"), "Five")}

BindAddresses == {"0.0.0.0", "999.0.0.1"}
BindPorts == {DEFAULT_PORT, 5006, 5007, 70000}
RacePorts == {DEFAULT_PORT, 5006, 5007}

----------------------------------------------------------------------------
(* Specifications *)

IdleControl == [pc |-> "idle", n |-> 0, success |-> FALSE, prev |-> 0]

\* both calls of load_config() have read the document that holds config
InitLoaded ==
    /\ file = Document(config)
    /\ defaults = DEFAULT_SHORTCUTS
    /\ aliased = FALSE
    /\ loads = 2
    /\ resp = NoResponse
    /\ snapshot = NoSnapshot

\* main() has loaded the configuration and the listener is serving
InitRunning ==
    /\ InitLoaded
    /\ events = <<>>
    /\ servers = <<NewServer(config.osc_ip, config.osc_port)>>
    /\ threads = <<[pc |-> "serving", server |-> 1]>>
    /\ osc_server_instance = 1
    /\ osc_thread = 1
    /\ ctl = IdleControl
    /\ rival = IdleControl

\* messages arrive back to back and their threads interleave
InitDispatch ==
    /\ config = DEFAULT_CONFIG
    /\ handlers = <<>>
    /\ InitRunning

NextDispatch ==
    \/ Receive(DispatchMsgs, MaxMsgs)
    \/ HandlerStep

SpecDispatch == InitDispatch /\ [][NextDispatch]_vars

\* one message, drawn from the bounded inputs, against a drawn shortcut table
InitResolve ==
    /\ \E tbl \in ResolveTables : config = [DEFAULT_CONFIG EXCEPT !.custom_shortcuts = tbl]
    /\ \E m \in ResolveMsgs : handlers = <<NewHandler(m)>>
    /\ InitRunning

SpecResolve == InitResolve /\ [][HandlerStep]_vars

\* main() has loaded the configuration and started the listener thread
InitRebuild ==
    /\ config = DEFAULT_CONFIG
    /\ InitLoaded
    /\ handlers = <<>>
    /\ events = <<>>
    /\ servers = <<>>
    /\ threads = <<[pc |-> "start", server |-> 0]>>
    /\ osc_server_instance = 0
    /\ osc_thread = 1
    /\ ctl = IdleControl
    /\ rival = IdleControl

\* requests are issued one after another, and the sleeps of
\* restart_osc_server suffice: see ListenerSettled
ControlStep ==
    \/ ListenerSettled /\ \E ip \in BindAddresses, port \in BindPorts :
                              UpdateOscConfig(ip, port, MaxRebuilds)
    \/ RestartStop
    \/ RestartClose
    \/ RestartStart
    \/ ListenerSettled /\ RestartReturn

NextRebuild == ListenerStep \/ ControlStep

SpecRebuild == InitRebuild /\ [][NextRebuild]_vars

\* two requests of the control surface run restart_osc_server on threads of
\* their own, from the moment Flask is started: nothing orders their steps
\* and the steps of the listener threads, and a sleep is no synchronisation
NextRace ==
    \/ ListenerStep
    \/ \E port \in RacePorts : UpdateOscConfig("0.0.0.0", port, MaxRaceRequests)
    \/ RestartStop
    \/ RestartClose
    \/ RestartStart
    \/ RestartReturn
    \/ \E port \in RacePorts : RivalUpdate("0.0.0.0", port, MaxRaceRequests)
    \/ RivalStop
    \/ RivalClose
    \/ RivalStart
    \/ RivalReturn

SpecRace == InitRebuild /\ [][NextRace]_vars

\* the process from its launch: the module globals are fresh, CONFIG_FILE is
\* whatever an earlier run or the user left; requests of the control surface
\* are served one at a time
InitConfig ==
    /\ config = DEFAULT_CONFIG
    /\ defaults = DEFAULT_SHORTCUTS
    /\ aliased = TRUE
    /\ loads = 0
    /\ resp = NoResponse
    /\ snapshot = NoSnapshot
    /\ file \in InitialFiles
    /\ handlers = <<>>
    /\ events = <<>>
    /\ servers = <<>>
    /\ threads = <<>>
    /\ osc_server_instance = 0
    /\ osc_thread = 0
    /\ ctl = IdleControl
    /\ rival = IdleControl

NextConfig ==
    \/ LoadConfig
    \/ StartThreads
    \/ Relaunch
    \/ \E a \in AddAddresses, e \in AddEntries : AddShortcut(a, e)
    \/ \E a \in DeleteAddresses : DeleteShortcut(a)
    \/ ListenerSettled /\ \E ip \in ConfigAddresses, port \in ConfigPorts :
                              UpdateOscConfig(ip, port, MaxBindRequests)
    \/ RestartStop
    \/ RestartClose
    \/ RestartStart
    \/ ListenerSettled /\ RestartReturn
    \/ ListenerStep

SpecConfig == InitConfig /\ [][NextConfig]_vars

\* the listener is serving while the control surface edits the shortcut
\* table; a run holds one edit that reaches save_config
InitTable ==
    /\ config = DEFAULT_CONFIG
    /\ handlers = <<>>
    /\ InitRunning

NextTable ==
    \/ Receive(TableMsgs, MaxMsgs)
    \/ HandlerStep
    \/ ~snapshot.taken /\ \E a \in TableAddresses, e \in TableEntries : AddShortcut(a, e)
    \/ ~snapshot.taken /\ \E a \in TableAddresses : DeleteShortcut(a)

SpecTable == InitTable /\ [][NextTable]_vars

Spec == SpecDispatch

----------------------------------------------------------------------------
(* Properties *)

Dispatched(h) == handlers[h].pc \notin {"recv", "lookup"}
Finished(h) == handlers[h].pc = "done"
InTable(h) == handlers[h].address \in DOMAIN config.custom_shortcuts
EventsOf(h) == SelectSeq(events, LAMBDA e : e.h = h)
KeysOf(h, op, role) ==
    LET sel == SelectSeq(events, LAMBDA e : e.h = h /\ e.op = op /\ e.role = role)
    IN  [i \in 1..Len(sel) |-> sel[i].key]

\* what the resolver is expected to produce from a list of tokens: the leading
\* modifier aliases (trimmed, case-insensitive) and the first other token
IsAlias(tok) == Lower(Strip(tok)) \in DOMAIN MODIFIERS
LeadingAliases(tokens) ==
    CHOOSE k \in 0..Len(tokens) :
        /\ \A i \in 1..k : IsAlias(tokens[i])
        /\ k < Len(tokens) => ~IsAlias(tokens[k + 1])
ExpectedModifiers(tokens) == [i \in 1..LeadingAliases(tokens) |-> Strip(tokens[i])]
ExpectedKey(tokens) ==
    IF LeadingAliases(tokens) < Len(tokens)
    THEN Strip(tokens[LeadingAliases(tokens) + 1])
    ELSE None
ExpectedOutcome(tokens) ==
    IF ExpectedModifiers(tokens) # <<>> \/ Truthy(ExpectedKey(tokens))
    THEN "resolved" ELSE "no_valid"
ClassifiedAs(h, tokens) ==
    /\ handlers[h].modifiers = ExpectedModifiers(tokens)
    /\ handlers[h].key = ExpectedKey(tokens)
    /\ handlers[h].outcome = ExpectedOutcome(tokens)

\* the tokens of an argument list: the words of a lone string that holds a
\* space, otherwise the arguments in their string form
TokensOf(args) ==
    IF Len(args) = 1 /\ args[1].isstr /\ ContainsSpace(args[1].s)
    THEN Split(args[1].s)
    ELSE [i \in 1..Len(args) |-> args[i].s]

AsArgs(tokens) == [i \in 1..Len(tokens) |-> StrArg(tokens[i])]
\* the command a resolution hands to press_key_combo, or "Empty" when it fails
Command(r) ==
    IF r.outcome \in {"shortcut", "resolved"}
    THEN [modifiers |-> r.modifiers, key |-> r.key]
    ELSE [modifiers |-> <<>>, key |-> <<"Empty">>]
SameResolution(h, r) == Command(handlers[h]) = Command(r)
ContainsWhitespace(s) == \E i \in 1..Len(s) : s[i] \in Whitespace

\* C1: when a pynput execution has ended, on the success path and on every
\* failure path, the modifiers it pressed have each been released once, in
\* reverse of the press order, so none is left pressed.
C1_ModifiersReleased ==
    \A h \in DOMAIN handlers :
        (Finished(h) /\ handlers[h].backend = "pynput")
            => KeysOf(h, "release", "modifier") = Reverse(KeysOf(h, "press", "modifier"))

\* C2: two executions never overlap: the key events of one message are
\* contiguous, no event of another message falls between them.
C2_NoOverlap ==
    \A i, k \in DOMAIN events :
        (i < k /\ events[i].h = events[k].h)
            => \A j \in i..k : events[j].h = events[i].h

\* C3: messages are processed in arrival order: every key event of an earlier
\* message comes before any key event of a later one.
C3_ArrivalOrder ==
    \A i, j \in DOMAIN events : i < j => events[i].h <= events[j].h

\* C4: for an address present in the shortcut table, handle_keypress passes
\* exactly the entry's modifiers and key to press_key_combo, whatever the
\* arguments are.
C4_ExactMatchPrecedence ==
    \A h \in DOMAIN handlers :
        (Dispatched(h) /\ InTable(h))
            => LET entry == config.custom_shortcuts[handlers[h].address]
               IN  /\ handlers[h].outcome = "shortcut"
                   /\ handlers[h].modifiers = entry.modifiers
                   /\ handlers[h].key = entry.key
                   /\ handlers[h].backend # "none"

C4_Witness ==
    \E h \in DOMAIN handlers :
        /\ Finished(h)
        /\ handlers[h].address = a_key_redo
        /\ handlers[h].args = <<StrArg(s_shift), StrArg(s_extra)>>
        /\ handlers[h].modifiers = <<s_command, s_shift>>
        /\ handlers[h].key = s_z
        /\ handlers[h].result = "success"

\* C5: the AppleScript backend is selected exactly when the key is one of
\* left/right/up/down (case-insensitive) and the modifier list is non-empty;
\* every other executed command uses the pynput backend.
ArrowNames == {s_left, s_right, s_up, s_down}
C5_BackendSelection ==
    \A h \in DOMAIN handlers :
        (Dispatched(h) /\ handlers[h].outcome \in {"shortcut", "resolved"})
            => /\ handlers[h].backend \in {"applescript", "pynput"}
               /\ handlers[h].backend = "applescript"
                    <=> /\ Truthy(handlers[h].key)
                        /\ Lower(handlers[h].key) \in ArrowNames
                        /\ handlers[h].modifiers # <<>>

C5_Witness ==
    \E h \in DOMAIN handlers :
        /\ Finished(h)
        /\ handlers[h].key = s_Left
        /\ handlers[h].modifiers = <<s_command>>
        /\ handlers[h].backend = "applescript"

ListenerRunning ==
    /\ osc_server_instance # 0
    /\ servers[osc_server_instance].sock = "open"

\* C6: a rebuild whose new listener failed to bind is reported as a failure:
\* update_osc_config never answers success while no listener is running.
C6_BindFailureSurfaced ==
    (ctl.pc = "idle" /\ ctl.n > 0 /\ ctl.success) => ListenerRunning

\* C7: in rebuilds issued one after another the previous listener has been
\* stopped and its socket closed before the new listener binds: at most one
\* socket is bound at any time, a thread on its way to the bind finds every
\* earlier socket closed, and a rebuild onto the address the previous listener
\* was bound to ends with the new listener bound there.
OpenServers == {s \in DOMAIN servers : servers[s].sock = "open"}
C8_HeuristicClassification ==
    \A h \in DOMAIN handlers :
        (/\ Dispatched(h) /\ RoutesToKeypress(handlers[h].address)
         /\ ~InTable(h) /\ handlers[h].args # <<>>)
            => ClassifiedAs(h, TokensOf(handlers[h].args))

C8_Witness ==
    \E h \in DOMAIN handlers :
        /\ Finished(h)
        /\ handlers[h].address = a_key_foo
        /\ ~InTable(h)
        /\ handlers[h].args = <<StrArg(s_command), StrArg(s_shift), StrArg(s_z), StrArg(s_extra)>>
        /\ handlers[h].modifiers = <<s_command, s_shift>>
        /\ handlers[h].key = s_z
        /\ handlers[h].result = "success"

\* C9: an address outside the table that starts with /key/ and has no
\* arguments is resolved from the remainder after the prefix, taken as the one
\* argument (/key/down gives no modifiers and key down); with an empty
\* remainder, or for the bare /key, resolution fails and no key event occurs.
C9_KeyFromAddress ==
    \A h \in DOMAIN handlers :
        (/\ Dispatched(h) /\ RoutesToKeypress(handlers[h].address)
         /\ ~InTable(h) /\ handlers[h].args = <<>>)
            => LET a == handlers[h].address
                   rest == Strip(SubSeq(a, Len(KEY_PREFIX) + 1, Len(a)))
               IN  IF StartsWith(a, KEY_PREFIX) /\ rest # <<>>
                   THEN /\ ClassifiedAs(h, TokensOf(<<StrArg(rest)>>))
                        /\ a = a_key_down
                             => handlers[h].modifiers = <<>> /\ handlers[h].key = s_down
                   ELSE /\ handlers[h].outcome = "no_args"
                        /\ handlers[h].backend = "none"
                        /\ Finished(h)
                        /\ EventsOf(h) = <<>>

C9_Witness ==
    \E h \in DOMAIN handlers :
        /\ Finished(h)
        /\ handlers[h].address = a_key_down
        /\ handlers[h].args = <<>>
        /\ handlers[h].modifiers = <<>>
        /\ handlers[h].key = s_down
        /\ EventsOf(h) = <<KeyEvent(h, "press", "main", Key("down")),
                           KeyEvent(h, "release", "main", Key("down"))>>

\* C10 as stated: a lone string argument holding whitespace of any kind
\* resolves exactly as its whitespace-separated words passed as separate
\* arguments.
C10_AnyWhitespaceSplits ==
    \A h \in DOMAIN handlers :
        (/\ Dispatched(h) /\ RoutesToKeypress(handlers[h].address)
         /\ Len(handlers[h].args) = 1 /\ handlers[h].args[1].isstr
         /\ ContainsWhitespace(handlers[h].args[1].s))
            => SameResolution(h, HandleKeypress(handlers[h].address,
                                                AsArgs(Split(handlers[h].args[1].s)),
                                                config.custom_shortcuts))

\* C10 amended: a lone string argument that holds a space character and at
\* least one non-whitespace character resolves exactly as its
\* whitespace-separated words passed as separate arguments.
C10_SpaceSplits ==
    \A h \in DOMAIN handlers :
        (/\ Dispatched(h) /\ RoutesToKeypress(handlers[h].address)
         /\ Len(handlers[h].args) = 1 /\ handlers[h].args[1].isstr
         /\ ContainsSpace(handlers[h].args[1].s)
         /\ Split(handlers[h].args[1].s) # <<>>)
            => SameResolution(h, HandleKeypress(handlers[h].address,
                                                AsArgs(Split(handlers[h].args[1].s)),
                                                config.custom_shortcuts))

C10_Witness ==
    \E h \in DOMAIN handlers :
        /\ Finished(h)
        /\ handlers[h].address = a_key_foo
        /\ ~InTable(h)
        /\ handlers[h].args = <<StrArg(s_command_shift_z)>>
        /\ handlers[h].modifiers = <<s_command, s_shift>>
        /\ handlers[h].key = s_z
        /\ handlers[h].result = "success"

----------------------------------------------------------------------------
(* Shortcut requests and persistence *)

Rejected == resp' # resp /\ resp'.op \in {"add", "delete"} /\ ~resp'.success

\* C11: a shortcut request is rejected exactly when it should be (add: the
\* address lacks the /key/ prefix; delete: the address is not in the table,
\* reported as not found), and a rejected request leaves the table, the
\* defaults and the file as they were and does not run save_config
C11_RejectedMutationNoChange ==
    [][ /\ (resp' # resp /\ resp'.op = "add")
            => (resp'.success <=> StartsWith(resp'.arg, KEY_PREFIX))
        /\ (resp' # resp /\ resp'.op = "delete")
            => /\ resp'.success <=> resp'.arg \in DOMAIN config.custom_shortcuts
               /\ ~resp'.success => resp'.message = "Shortcut not found"
        /\ Rejected => /\ config' = config
                       /\ file' = file
                       /\ defaults' = defaults
                       /\ snapshot' = snapshot ]_vars

\* a delete of an absent address was refused after the table had been edited and saved
C11_Witness ==
    /\ resp.op = "delete"
    /\ ~resp.success
    /\ resp.arg = a_key_arrow
    /\ snapshot.taken
    /\ config.custom_shortcuts # DEFAULT_SHORTCUTS

JustLoaded == resp.op = "load"

C15_EntriesNonEmpty ==
    \A a \in DOMAIN config.custom_shortcuts :
        \/ Truthy(config.custom_shortcuts[a].key)
        \/ config.custom_shortcuts[a].modifiers # <<>>

\* C19: after load_config fell back, config is the built-in defaults; after it
\* found no file, config is the built-in defaults and, if the write went
\* through, so is the file
C19_LoadFallsBackToDefaults ==
    /\ (JustLoaded /\ resp.message = "fallback") => config = DEFAULT_CONFIG
    /\ (JustLoaded /\ resp.message = "created")
        => /\ config = DEFAULT_CONFIG
           /\ snapshot.how = "written" => file = Document(DEFAULT_CONFIG)

ReturnedSuccess ==
    \/ resp.op \in {"add", "delete"} /\ resp.success
    \/ resp.op = "osc" /\ ctl.pc = "idle" /\ ctl.success

\* C20: when an add, a delete of a present address or a bind-config request
\* has returned success and its write did not fail, the file holds exactly
\* the three members of config
C20_WholeDocumentWritten ==
    (ReturnedSuccess /\ snapshot.how = "written") => file = Document(config)

\* a bind-config request returned after the table had been edited
C20_Witness ==
    /\ resp.op = "osc"
    /\ ctl.pc = "idle"
    /\ ctl.success
    /\ snapshot.how = "written"
    /\ config.custom_shortcuts # DEFAULT_SHORTCUTS
    /\ file = Document(config)

----------------------------------------------------------------------------
(* Errors on the message path *)

\* C13: a handler that runs while the table is being edited never fails on
\* its table read
C13_AtomicTableRead ==
    \A h \in DOMAIN handlers : handlers[h].result # "KeyError"

\* C14: no request thread ends with an exception that left handle_keypress
C14_NoErrorEscapes ==
    \A h \in DOMAIN handlers : Finished(h) => handlers[h].outcome # "raised"

\* C17: once press_key_combo has been called and has ended, it has returned
\* True after a completed sequence and False after a failure
C17_ReturnsBoolean ==
    \A h \in DOMAIN handlers :
        (Finished(h) /\ handlers[h].backend # "none")
            => handlers[h].returned =
                   IF handlers[h].result = "success" THEN "True" ELSE "False"

----------------------------------------------------------------------------
(* Bind parameters *)

\* C16: the stored listen port is always within 1024..65535
C16_PortInRange == config.osc_port \in 1024..65535

----------------------------------------------------------------------------
(* Routing *)

OutsideKeySpace(address) == address # a_key /\ ~StartsWith(address, KEY_PREFIX)
HasWildcard(address) == \E i \in 1..Len(address) : address[i] \in {"*", "?"}
OnlyUnmatched(h) ==
    /\ handlers[h].pc \in {"recv", "done"}
    /\ Finished(h) => /\ handlers[h].outcome = "unmatched"
                      /\ handlers[h].backend = "none"
                      /\ EventsOf(h) = <<>>

\* C18 as stated: a message whose address is neither /key nor under /key/
\* only takes the unmatched path: no table read, no call of press_key_combo,
\* no key event
C18_OutsideOnlyUnmatched ==
    \A h \in DOMAIN handlers : OutsideKeySpace(handlers[h].address) => OnlyUnmatched(h)

\* C18 amended: the same for addresses without the OSC wildcards * and ?
C18_LiteralOutsideOnlyUnmatched ==
    \A h \in DOMAIN handlers :
        (OutsideKeySpace(handlers[h].address) /\ ~HasWildcard(handlers[h].address))
            => OnlyUnmatched(h)

\* /osc with a modifier and a key as arguments went to the unmatched handler
C18_Witness ==
    \E h \in DOMAIN handlers :
        /\ handlers[h].address = a_osc
        /\ handlers[h].args = <<StrArg(s_command), StrArg(s_z)>>
        /\ Finished(h)
        /\ handlers[h].outcome = "unmatched"
        /\ events = <<>>

----------------------------------------------------------------------------
(* The direct backend's key sequence *)

\* the keys of the known modifier names of a command, in the order given
KnownKeys(modifiers) ==
    LET known == SelectSeq(modifiers, LAMBDA m : Lower(m) \in DOMAIN MODIFIERS)
    IN  [i \in 1..Len(known) |-> MODIFIERS[Lower(known[i])]]
Presses(h, role, keys) == [i \in 1..Len(keys) |-> KeyEvent(h, "press", role, keys[i])]
Releases(h, role, keys) == [i \in 1..Len(keys) |-> KeyEvent(h, "release", role, keys[i])]
DirectSuccess(h) ==
    /\ Finished(h)
    /\ handlers[h].backend = "pynput"
    /\ handlers[h].result = "success"
MainEvents(h) ==
    IF Truthy(handlers[h].key)
    THEN <<KeyEvent(h, "press", "main", handlers[h].main_key),
           KeyEvent(h, "release", "main", handlers[h].main_key)>>
    ELSE <<>>

\* C21: a pynput execution that succeeded produced exactly: the press of each
\* known modifier in the order given, the press and release of the main key
\* when there is one, the release of the modifiers in reverse order
C21_DirectOrder ==
    \A h \in DOMAIN handlers :
        DirectSuccess(h)
            => EventsOf(h) =
                   Presses(h, "modifier", KnownKeys(handlers[h].modifiers))
                   \o MainEvents(h)
                   \o Releases(h, "modifier", Reverse(KnownKeys(handlers[h].modifiers)))

C21_Witness ==
    \E h \in DOMAIN handlers :
        /\ DirectSuccess(h)
        /\ handlers[h].args = <<StrArg(s_command), StrArg(s_shift), StrArg(s_z)>>
        /\ events = <<KeyEvent(h, "press", "modifier", Key("cmd")),
                      KeyEvent(h, "press", "modifier", Key("shift")),
                      KeyEvent(h, "press", "main", s_z),
                      KeyEvent(h, "release", "main", s_z),
                      KeyEvent(h, "release", "modifier", Key("shift")),
                      KeyEvent(h, "release", "modifier", Key("cmd"))>>

NumericArg(args) == \E i \in 1..Len(args) : ~args[i].isstr
UnderPrefixWithArgs(h) ==
    /\ StartsWith(handlers[h].address, KEY_PREFIX)
    /\ ~InTable(h)
    /\ handlers[h].args # <<>>

\* C22 as stated: a message on /key/<name> outside the table that carries a
\* numeric argument ends without any key event
C22_UnrelatedArgNoKeystroke ==
    \A h \in DOMAIN handlers :
        (Finished(h) /\ UnderPrefixWithArgs(h) /\ NumericArg(handlers[h].args))
            => EventsOf(h) = <<>>

\* C22 amended: a message on /key/<name> outside the table that carries
\* arguments is resolved from the arguments alone - the first token that is
\* not a modifier alias is the key, whatever it is - and a successful
\* execution presses that key; the lone numeric argument 1 types "1"
C22_ArgumentsAloneResolve ==
    \A h \in DOMAIN handlers :
        (Dispatched(h) /\ UnderPrefixWithArgs(h))
            => /\ ClassifiedAs(h, TokensOf(handlers[h].args))
               /\ DirectSuccess(h) => KeysOf(h, "press", "main") =
                      IF Truthy(ExpectedKey(TokensOf(handlers[h].args)))
                      THEN <<handlers[h].main_key>> ELSE <<>>
               /\ (Finished(h) /\ handlers[h].args = <<NumArg(s_one)>>
                   /\ handlers[h].result = "success")
                      => EventsOf(h) = <<KeyEvent(h, "press", "main", s_one),
                                         KeyEvent(h, "release", "main", s_one)>>

C22_Witness ==
    \E h \in DOMAIN handlers :
        /\ handlers[h].address = a_key_down
        /\ handlers[h].args = <<NumArg(s_one)>>
        /\ DirectSuccess(h)
        /\ handlers[h].key = s_one
        /\ events = <<KeyEvent(h, "press", "main", s_one),
                      KeyEvent(h, "release", "main", s_one)>>

HasUnknownModifier(h) ==
    \E i \in 1..Len(handlers[h].modifiers) :
        Lower(handlers[h].modifiers[i]) \notin DOMAIN MODIFIERS

\* C25: a command with an unknown modifier name is still executed: on the
\* pynput success path the known modifiers are pressed in order and released
\* in reverse, the main key is pressed and released, and every modifier event
\* is for a known modifier
C25_UnknownModifierOmitted ==
    \A h \in DOMAIN handlers :
        (/\ Dispatched(h) /\ handlers[h].outcome \in {"shortcut", "resolved"}
         /\ HasUnknownModifier(h))
            => /\ handlers[h].backend # "none"
               /\ \A i \in DOMAIN events :
                    (events[i].h = h /\ events[i].role = "modifier")
                        => \E j \in 1..Len(handlers[h].modifiers) :
                             /\ Lower(handlers[h].modifiers[j]) \in DOMAIN MODIFIERS
                             /\ events[i].key = MODIFIERS[Lower(handlers[h].modifiers[j])]
               /\ DirectSuccess(h)
                    => /\ KeysOf(h, "press", "modifier") = KnownKeys(handlers[h].modifiers)
                       /\ KeysOf(h, "release", "modifier")
                            = Reverse(KnownKeys(handlers[h].modifiers))
                       /\ Truthy(handlers[h].key)
                            => /\ KeysOf(h, "press", "main") = <<handlers[h].main_key>>
                               /\ KeysOf(h, "release", "main") = <<handlers[h].main_key>>

C25_Witness ==
    \E h \in DOMAIN handlers :
        /\ DirectSuccess(h)
        /\ handlers[h].address = a_key_redo
        /\ handlers[h].modifiers = <<s_hyper, s_command, s_shift>>
        /\ KeysOf(h, "press", "modifier") = <<Key("cmd"), Key("shift")>>
        /\ KeysOf(h, "press", "main") = <<s_z>>
        /\ KeysOf(h, "release", "modifier") = <<Key("shift"), Key("cmd")>>

\* C30: a pynput execution that succeeded pressed each modifier key once
C30_ModifierPressedOnce ==
    \A h \in DOMAIN handlers :
        DirectSuccess(h)
            => LET pressed == KeysOf(h, "press", "modifier")
               IN  \A i, j \in 1..Len(pressed) : i # j => pressed[i] # pressed[j]

----------------------------------------------------------------------------
(* Frames of the table operations and of message handling *)

Succeeded(op) == resp' # resp /\ resp'.op = op /\ resp'.success
BindConfigKept == config'.osc_ip = config.osc_ip /\ config'.osc_port = config.osc_port
ListenerKept == UNCHANGED <<osc_server_instance, osc_thread, servers, threads>>

\* C26: an add that answered success leaves the posted entry at its address and
\* every other entry as it was; a delete that answered success leaves the
\* address absent and every other entry as it was; neither changes osc_ip,
\* osc_port or the listener
C26_TableFrame ==
    [][LET old == config.custom_shortcuts
           new == config'.custom_shortcuts
           A == resp'.arg
       IN  /\ Succeeded("add")
                => /\ DOMAIN new = DOMAIN old \cup {A}
                   /\ new[A] \in AddEntries
                   /\ \A a \in DOMAIN old \ {A} : new[a] = old[a]
                   /\ BindConfigKept /\ ListenerKept
           /\ Succeeded("delete")
                => /\ A \in DOMAIN old
                   /\ DOMAIN new = DOMAIN old \ {A}
                   /\ \A a \in DOMAIN new : new[a] = old[a]
                   /\ BindConfigKept /\ ListenerKept]_vars

C26_Witness ==
    /\ resp.op = "add" /\ resp.success /\ resp.arg = a_key_foo
    /\ DOMAIN config.custom_shortcuts = DOMAIN DEFAULT_SHORTCUTS \cup {a_key_foo}
    /\ config.custom_shortcuts[a_key_foo] = Shortcut(<<s_command>>, s_zz, "Zoom")
    /\ \A a \in DOMAIN DEFAULT_SHORTCUTS : config.custom_shortcuts[a] = DEFAULT_SHORTCUTS[a]

\* a step of a request thread: no message arrives, one handler moves on
HandlerMoved == handlers' # handlers /\ Len(handlers') = Len(handlers)

\* C27: no step of handle_keypress / press_key_combo changes the shortcut
\* table, the bind configuration or the persisted document
C27_HandlingReadOnly ==
    [][HandlerMoved => config' = config /\ file' = file /\ defaults' = defaults]_vars

C27_Witness ==
    /\ snapshot.taken
    /\ config = snapshot.cfg
    /\ config # DEFAULT_CONFIG
    /\ \E h, g \in DOMAIN handlers :
        /\ handlers[h].outcome = "shortcut" /\ Finished(h)
        /\ handlers[g].outcome = "resolved" /\ handlers[g].result = "error"

----------------------------------------------------------------------------
(* Rebuilds of the listener *)

Requests == <<ctl, rival>>
Quiescent ==
    /\ \A i \in 1..2 : Requests[i].pc = "idle"
    /\ \A t \in DOMAIN threads : threads[t].pc \in {"serving", "exited", "failed"}
\* the thread never got a server: its constructor raised at the bind
BindFailed(t) == threads[t].pc = "failed" /\ threads[t].server = 0
Served(s) == \E t \in DOMAIN threads : threads[t].pc = "serving" /\ threads[t].server = s

\* C28: at most one socket is bound at any time, and when every request has
\* returned and every listener thread has come to rest, a bound socket is the
\* one osc_server_instance refers to
C28_SingleListener ==
    /\ Cardinality(OpenServers) <= 1
    /\ Quiescent => \A s \in OpenServers : osc_server_instance = s

\* C23: when every request has returned and the thread of the last rebuild
\* failed at its bind, no socket is bound, osc_server_instance is None and no
\* receive loop runs
C23_FailedRebuildLeavesStopped ==
    (/\ \A i \in 1..2 : Requests[i].pc = "idle"
     /\ \E i \in 1..2 : Requests[i].n > 0
     /\ BindFailed(osc_thread))
        => /\ osc_server_instance = 0
           /\ OpenServers = {}
           /\ \A s \in DOMAIN servers : ~Served(s)

\* the event a shutdown() call waits for can still be set: a loop runs on the
\* server, or a thread can still enter serve_forever on it
CanStillExit(s) ==
    \/ Served(s)
    \/ \E t \in DOMAIN threads : threads[t].pc = "constructed" /\ threads[t].server = s
    \/ osc_server_instance = s /\ \E t \in DOMAIN threads : threads[t].pc = "bound"
Stuck(c) ==
    /\ c.pc = "shutdown"
    /\ ~servers[c.prev].is_shut_down
    /\ ~CanStillExit(c.prev)

\* C24: no request waits in restart_osc_server for an event that nothing can
\* set any more
C24_NoRequestStuck == \A i \in 1..2 : ~Stuck(Requests[i])

----------------------------------------------------------------------------
(* Removal of a built-in entry across a restart *)

\* the first load_config of a freshly started process has just run, and the
\* document it found was written by save_config in an earlier run
FirstLoadAfterRestart ==
    /\ JustLoaded
    /\ loads = 1
    /\ resp.message # "created"
    /\ snapshot.taken
    /\ snapshot.how = "written"
\* built-in addresses that the persisted table no longer holds: every stored
\* document of a first launch holds them all, so a delete_shortcut removed them
RemovedBuiltins == DOMAIN DEFAULT_SHORTCUTS \ DOMAIN snapshot.cfg.custom_shortcuts

====
